---- MODULE Spec2Model ----
(***************************************************************************)
(* Pricing display utilities of the Split Lease search page                *)
(* (js/pricing-display.js): calculateDynamicPrice, interpolatePricing,     *)
(* and the pricing part of renderEnhancedPricing.                          *)
(*                                                                         *)
(* A listing is a record of database fields.  For every night count 2..7   *)
(* it may hold a rate under two spellings ('Price N nights selected' and   *)
(* the emoji field 'Nightly Host Rate for N nights'); it may hold a        *)
(* starting price under 'Starting nightly price' and under price.starting. *)
(*                                                                         *)
(* JavaScript values are records [t, v]: t is the type tag and v the       *)
(* numeric value of a number.  Amounts are counted in 1/Unit of a price    *)
(* step, and every stored price is a whole number of price steps, so the   *)
(* quotient of the linear interpolation is exact.                          *)
(***************************************************************************)
EXTENDS Integers, Sequences, FiniteSets, TLC

\* ---------------------------------------------------------------- bounds
MaxPrice == 2
MaxFields == 3
MaxDays == 9
MaxTarget == 8

\* ------------------------------------------------------- program constants
MinNights == 2
MaxNights == 7
MinimumNight == 1

Nights == MinNights..MaxNights

\* 3 * 4 * 5 is a multiple of every nightsRange 1..5 between two night counts
Unit == 3 * 4 * 5

\* ------------------------------------------------------------ JS values
Undefined == [t |-> "undefined", v |-> 0]
NaN == [t |-> "NaN", v |-> 0]
Num(n) == [t |-> "number", v |-> n]
\* values that are not numeric: null, a text that holds no number ('abc'),
\* a plain object ({})
Null == [t |-> "null", v |-> 0]
Text == [t |-> "string", v |-> 0]
Obj == [t |-> "object", v |-> 0]

\* JavaScript truthiness: undefined, null, NaN and 0 are falsy; a non-empty
\* text and an object are truthy
Truthy(x) == (x.t = "number" /\ x.v # 0) \/ x.t = "string" \/ x.t = "object"

\* x > 0: undefined, 'abc' and {} convert to NaN and null to 0, and any
\* comparison with NaN is false
GreaterThanZero(x) == x.t = "number" /\ x.v > 0

\* a || b
JsOr(a, b) == IF Truthy(a) THEN a ELSE b

\* parseFloat(x): a number is returned as it is; undefined, null, 'abc' and
\* {} parse to NaN
ParseFloat(x) == IF x.t = "number" THEN x ELSE NaN

Max(a, b) == IF a >= b THEN a ELSE b
Abs(a) == IF a >= 0 THEN a ELSE 0 - a

\* -------------------------------------------------------------- listings
RateField(n) == <<"Price nights selected", n>>
EmojiField(n) == <<"Nightly Host Rate for nights", n>>
StartingField == <<"Starting nightly price", 0>>
PriceStartingField == <<"price.starting", 0>>

Fields == {RateField(n) : n \in Nights} \cup {EmojiField(n) : n \in Nights}
          \cup {StartingField, PriceStartingField}

\* listing[name]: a property the record does not hold reads as undefined
Get(l, x) == IF x \in DOMAIN l THEN l[x] ELSE Undefined

\* the values a database field holds: a zero, a negative amount, a price
StoredValues == {Num(k * Unit) : k \in (0 - 1)..MaxPrice}

\* the values of a field that holds malformed data
MalformedValues == {Null, Text, Obj}

\* the sets of at most MaxFields fields a listing record holds
FieldSets == {T \in SUBSET Fields : Cardinality(T) <= MaxFields}

\* the listing that holds the fields of S with the values f gives them
MakeListing(S, f) == [x \in Fields |-> IF x \in S THEN f[x] ELSE Undefined]

\* ------------------------------------------------- stable sort (Array.sort)
\* s is a sequence of records with an integer field key; ascending, stable
RECURSIVE InsertByKey(_, _)
InsertByKey(s, e) ==
    IF s = <<>> THEN <<e>>
    ELSE IF s[Len(s)].key <= e.key THEN Append(s, e)
    ELSE Append(InsertByKey(SubSeq(s, 1, Len(s) - 1), e), s[Len(s)])

RECURSIVE SortByKey(_)
SortByKey(s) ==
    IF s = <<>> THEN <<>>
    ELSE InsertByKey(SortByKey(SubSeq(s, 1, Len(s) - 1)), s[Len(s)])

\* ------------------------------------------------------ interpolatePricing
\* lines 121-131: the points collected from the listing, in night order
CollectedPrice(l, n) == JsOr(l[RateField(n)], l[EmojiField(n)])

AvailablePrices(l) ==
    LET all == [i \in 1..(MaxNights - MinNights + 1) |->
                  [nights |-> i + MinNights - 1,
                   price |-> CollectedPrice(l, i + MinNights - 1)]]
        valid(p) == Truthy(p.price) /\ GreaterThanZero(p.price)
        kept == SelectSeq(all, valid)
    IN [i \in 1..Len(kept) |->
          [nights |-> kept[i].nights, price |-> ParseFloat(kept[i].price).v]]

\* mutant of LowerPrices: the points below the target sorted by ascending nights
LowerPricesAscending(avail, targetNights) ==
    LET below(p) == p.nights < targetNights
        f == SelectSeq(avail, below)
    IN SortByKey([i \in 1..Len(f) |->
                    [key |-> f[i].nights, nights |-> f[i].nights, price |-> f[i].price]])

\* line 139: filter(p => p.nights < targetNights).sort((a, b) => b.nights - a.nights)
LowerPrices(avail, targetNights) ==
    LET below(p) == p.nights < targetNights
        f == SelectSeq(avail, below)
    IN SortByKey([i \in 1..Len(f) |->
                    [key |-> 0 - f[i].nights, nights |-> f[i].nights, price |-> f[i].price]])

\* line 140: filter(p => p.nights > targetNights).sort((a, b) => a.nights - b.nights)
HigherPrices(avail, targetNights) ==
    LET above(p) == p.nights > targetNights
        f == SelectSeq(avail, above)
    IN SortByKey([i \in 1..Len(f) |->
                    [key |-> f[i].nights, nights |-> f[i].nights, price |-> f[i].price]])

\* mutant of ClosestPrices: sorted by night count, not by distance to the target
ClosestPricesByNights(avail, targetNights) ==
    SortByKey([i \in 1..Len(avail) |->
                 [key |-> avail[i].nights,
                  nights |-> avail[i].nights, price |-> avail[i].price]])

\* line 144: sort by Math.abs(nights - targetNights)
ClosestPrices(avail, targetNights) ==
    SortByKey([i \in 1..Len(avail) |->
                 [key |-> Abs(avail[i].nights - targetNights),
                  nights |-> avail[i].nights, price |-> avail[i].price]])

\* mutant of LinearInterpolation: the night offset is not divided by nightsRange
LinearInterpolationNoRange(lowerPrice, higherPrice, targetNights) ==
    LET priceRange == higherPrice.price - lowerPrice.price
    IN lowerPrice.price + (targetNights - lowerPrice.nights) * priceRange

\* mutant of LinearInterpolation: the offset is added to the higher price
LinearInterpolationFromHigher(lowerPrice, higherPrice, targetNights) ==
    LET nightsRange == higherPrice.nights - lowerPrice.nights
        priceRange == higherPrice.price - lowerPrice.price
    IN higherPrice.price + ((targetNights - lowerPrice.nights) * priceRange) \div nightsRange

\* lines 149-151
LinearInterpolation(lowerPrice, higherPrice, targetNights) ==
    LET nightsRange == higherPrice.nights - lowerPrice.nights
        priceRange == higherPrice.price - lowerPrice.price
    IN lowerPrice.price + ((targetNights - lowerPrice.nights) * priceRange) \div nightsRange

interpolatePricing(l, targetNights) ==
    LET availablePrices == AvailablePrices(l)
        lower == LowerPrices(availablePrices, targetNights)
        higher == HigherPrices(availablePrices, targetNights)
    IN IF Len(availablePrices) < 2 THEN 0
       ELSE IF lower = <<>> \/ higher = <<>>
            THEN ClosestPrices(availablePrices, targetNights)[1].price
       ELSE LinearInterpolation(lower[1], higher[1], targetNights)

\* --------------------------------------------------- calculateDynamicPrice
\* mutant of NightsCount: the day count is taken for the night count
NightsCountIsDays(selectedDaysCount) == Max(selectedDaysCount, MinimumNight)

\* mutant of NightsCount: no minimum of 1 night
NightsCountNoMinimum(selectedDaysCount) == selectedDaysCount - 1

\* line 70 (and line 15): n days = (n-1) nights, minimum 1 night
NightsCount(selectedDaysCount) == Max(selectedDaysCount - 1, MinimumNight)

\* mutant of StartingPriceFallback: listing.price.starting is not read
StartingPriceFirstFieldOnly(l) ==
    LET startingPrice == JsOr(l[StartingField], Num(0))
    IN JsOr(ParseFloat(startingPrice), Num(0)).v

\* lines 106-108
StartingPriceFallback(l) ==
    LET startingPrice == JsOr(JsOr(l[StartingField], l[PriceStartingField]), Num(0))
    IN JsOr(ParseFloat(startingPrice), Num(0)).v

\* mutant of InRange: no upper end of the range
InRangeNoUpper(nightsCount) == nightsCount >= MinNights

\* line 83
InRange(nightsCount) == nightsCount >= MinNights /\ nightsCount <= MaxNights

calculateDynamicPrice(l, selectedDaysCount) ==
    LET nightsCount == NightsCount(selectedDaysCount)
        price == Get(l, RateField(nightsCount))
        emojiPrice == Get(l, EmojiField(nightsCount))
        interpolatedPrice == interpolatePricing(l, nightsCount)
    IN IF InRange(nightsCount)
       THEN IF Truthy(price) /\ GreaterThanZero(price) THEN ParseFloat(price).v
            ELSE IF Truthy(emojiPrice) /\ GreaterThanZero(emojiPrice)
                 THEN ParseFloat(emojiPrice).v
            ELSE IF interpolatedPrice > 0 THEN interpolatedPrice
            ELSE StartingPriceFallback(l)
       ELSE StartingPriceFallback(l)

\* --------------------------------------------------- renderEnhancedPricing
\* line 24: the prices differ significantly when they differ by more than 1
SignificantDifference == 1

\* line 21: parseFloat(listing['Starting nightly price'] || listing.price?.starting || 0),
\* 0 for NaN (NaN > 0 is false and the value is shown only when it is > 0)
StartingPrice(l) ==
    LET startingPrice == ParseFloat(JsOr(JsOr(l[StartingField], l[PriceStartingField]), Num(0)))
    IN IF startingPrice.t = "number" THEN startingPrice.v ELSE 0

\* mutant of ShowNormalPrice: any difference counts
ShowNormalPriceAnyDifference(startingPrice, dynamicPrice) ==
    startingPrice > 0 /\ Abs(dynamicPrice - startingPrice) > 0

\* line 24
ShowNormalPrice(startingPrice, dynamicPrice) ==
    startingPrice > 0 /\ Abs(dynamicPrice - startingPrice) > SignificantDifference

\* ---------------------------------------------------- showPricingBreakdown
\* lines 171-186: the tiers of the table, in night order
PricingTiers(l) ==
    LET all == [i \in 1..(MaxNights - MinNights + 1) |->
                  [nights |-> i + MinNights - 1,
                   price |-> JsOr(l[RateField(i + MinNights - 1)],
                                  l[EmojiField(i + MinNights - 1)])]]
        valid(p) == Truthy(p.price) /\ GreaterThanZero(p.price)
        kept == SelectSeq(all, valid)
    IN [i \in 1..Len(kept) |->
          [nights |-> kept[i].nights,
           perNightPrice |-> ParseFloat(kept[i].price).v,
           totalPrice |-> ParseFloat(kept[i].price).v * kept[i].nights]]

\* lines 162-238: the listing is not among the current listings: an error is
\* logged; it has no tier: an alert; else the modal with the tiers is added
showPricingBreakdown(l, inCurrentListings) ==
    IF ~inCurrentListings
    THEN [modal |-> FALSE, pricingTiers |-> <<>>, alert |-> FALSE, error |-> TRUE]
    ELSE IF Len(PricingTiers(l)) = 0
    THEN [modal |-> FALSE, pricingTiers |-> <<>>, alert |-> TRUE, error |-> FALSE]
    ELSE [modal |-> TRUE, pricingTiers |-> PricingTiers(l), alert |-> FALSE,
          error |-> FALSE]

\* -------------------------------------------------------- getPriceForNights
\* lines 248-258: outside 2..7 the starting price as it is stored, inside the
\* value read for the night count if it is positive, else 0
getPriceForNights(l, nights) ==
    LET price == JsOr(Get(l, RateField(nights)), Get(l, EmojiField(nights)))
    IN IF nights < MinNights \/ nights > MaxNights
       THEN JsOr(JsOr(l[StartingField], l[PriceStartingField]), Num(0))
       ELSE IF Truthy(price) /\ GreaterThanZero(price) THEN ParseFloat(price)
       ELSE Num(0)

\* ------------------------------------------------------- amenity-utils.js
\* the ids of the model: amenity ids are opaque keys, here 1..MaxAmenityId
MaxAmenityId == 8
\* the longest in-unit and in-building id lists drawn freely
MaxInUnit == 2
MaxInBuilding == 1
\* the values of maxVisible renderAmenityIcons is called with, beside its default
MaxVisible == 2
\* line 83: the priority of a name that is not in AMENITY_PRIORITY_MAP
DefaultPriority == 999
\* line 143: maxVisible = 6
DefaultMaxVisible == 6

AmenityIds == 1..MaxAmenityId

\* lines 118-121: the rows of zat_features_amenity, _id -> Name; an id outside
\* the domain has no row
AmenityTable ==
    1 :> "WiFi" @@ 2 :> "WIFI" @@ 3 :> " WiFi " @@ 4 :> "Closet" @@ 5 :> "Washer"
      @@ 6 :> "Dryer" @@ 7 :> "Unknown-X"

\* mutant of ToLowerCase: the name is looked up as it is written
NoLowerCase(name) == name

\* line 82: String.prototype.toLowerCase on the names of the table; blanks
\* and text that is in lower case already stay as they are
ToLowerCase(name) ==
    CASE name = "WiFi" -> "wifi"
      [] name = "WIFI" -> "wifi"
      [] name = " WiFi " -> " wifi "
      [] name = "Closet" -> "closet"
      [] name = "Washer" -> "washer"
      [] name = "Dryer" -> "dryer"
      [] name = "Unknown-X" -> "unknown-x"
      [] OTHER -> name

\* lines 10-44: name in lower case -> priority
AMENITY_PRIORITY_MAP ==
    "wifi" :> 1 @@ "air conditioned" :> 2 @@ "gym" :> 3 @@ "elevator" :> 4
      @@ "doorman" :> 5 @@ "laundry room" :> 6 @@ "washer" :> 7 @@ "dryer" :> 7
      @@ "bike storage" :> 8 @@ "parking" :> 9 @@ "common outdoor space" :> 10
      @@ "balcony" :> 11 @@ "closet" :> 12 @@ "tv" :> 13 @@ "computer" :> 14
      @@ "dedicated workspace" :> 15 @@ "desk" :> 15 @@ "towels and linens" :> 16
      @@ "hangers" :> 17 @@ "locked door" :> 18 @@ "hot water" :> 19
      @@ "heating" :> 20 @@ "kitchen" :> 21 @@ "coffee maker" :> 22
      @@ "dishwasher" :> 23 @@ "pet-friendly" :> 24 @@ "dog" :> 24 @@ "cat" :> 24

\* the object AMENITY_PRIORITY_MAP names, which lines 10-44 build when the
\* module loads
VARIABLE priorityTable

\* line 83: AMENITY_PRIORITY_MAP[nameLower] || { priority: 999, ... }
PriorityInfo(nameLower) ==
    IF nameLower \in DOMAIN priorityTable
    THEN priorityTable[nameLower]
    ELSE DefaultPriority

\* an array of ids
Arr(ids) == [t |-> "array", v |-> ids]

\* a text that is the JSON of the value parsed: '[1, 2]', 'null', '5', '{}'
Json(parsed) == [t |-> "json", v |-> parsed]

\* lines 56-67: an array is taken as it is; a JSON text yields what
\* JSON.parse makes of it, array or not; the text 'abc' is no JSON, so
\* JSON.parse throws and the catch yields []; every other value yields []
parseJson(value) ==
    IF value.t = "array" THEN value
    ELSE IF value.t = "json" THEN value.v
    ELSE Arr(<<>>)

\* the elements of an array; [...x] throws a TypeError for an x that is not
\* iterable (null, a number, an object)
IsIterable(x) == x.t = "array"
Elements(x) == IF IsIterable(x) THEN x.v ELSE <<>>

\* line 71: the spread throws when one of the parsed values is not iterable
SpreadThrows(inUnit, inBuilding) ==
    ~IsIterable(parseJson(inUnit)) \/ ~IsIterable(parseJson(inBuilding))

allAmenityIds(inUnit, inBuilding) ==
    Elements(parseJson(inUnit)) \o Elements(parseJson(inBuilding))

Range(s) == {s[i] : i \in 1..Len(s)}

\* Array.prototype.includes
Includes(s, x) == x \in Range(s)

\* mutant of Category: only the first in-unit id is compared
CategoryByFirstId(inUnitIds, id) ==
    IF inUnitIds # <<>> /\ inUnitIds[1] = id THEN "in-unit" ELSE "in-building"

\* line 91
Category(inUnitIds, id) ==
    IF Includes(inUnitIds, id) THEN "in-unit" ELSE "in-building"

\* lines 81-93: one row of the lookup in the unified format (icon and
\* iconUrl, which depend on nothing but the row, are left out)
MapAmenity(inUnitIds, amenity) ==
    [id |-> amenity._id,
     name |-> amenity.Name,
     priority |-> PriorityInfo(ToLowerCase(amenity.Name)),
     category |-> Category(inUnitIds, amenity._id)]

\* mutant of SortByPriority: the list is left in the order of the rows
Unsorted(list) == list

\* mutant of SortByPriority: amenities of equal priority change places
SortByPriorityTiesReversed(list) ==
    LET keyed == [i \in 1..Len(list) |->
                    [key |-> list[Len(list) + 1 - i].priority,
                     amenity |-> list[Len(list) + 1 - i]]]
        sorted == SortByKey(keyed)
    IN [i \in 1..Len(list) |-> sorted[i].amenity]

\* line 96: amenities.sort((a, b) => a.priority - b.priority), a stable sort
SortByPriority(list) ==
    LET keyed == [i \in 1..Len(list) |-> [key |-> list[i].priority, amenity |-> list[i]]]
        sorted == SortByKey(keyed)
    IN [i \in 1..Len(list) |-> sorted[i].amenity]

\* mutant of parseAmenities: an id without a row gets a descriptor of its own
parseAmenitiesWithUnknownIds(inUnit, inBuilding, amenityDetails) ==
    LET inUnitIds == Elements(parseJson(inUnit))
        ids == allAmenityIds(inUnit, inBuilding)
        found == {amenityDetails[i]._id : i \in 1..Len(amenityDetails)}
        missing == SelectSeq(ids, LAMBDA id : id \notin found)
        mapped == [i \in 1..Len(amenityDetails) |-> MapAmenity(inUnitIds, amenityDetails[i])]
        synthetic == [i \in 1..Len(missing) |->
                        [id |-> missing[i], name |-> "raw id", priority |-> DefaultPriority,
                         category |-> Category(inUnitIds, missing[i])]]
    IN SortByPriority(mapped \o synthetic)

\* mutant of parseAmenities: the list is cut to the visible maximum
parseAmenitiesTruncated(inUnit, inBuilding, amenityDetails) ==
    LET inUnitIds == Elements(parseJson(inUnit))
        mapped == [i \in 1..Len(amenityDetails) |-> MapAmenity(inUnitIds, amenityDetails[i])]
        sorted == SortByPriority(mapped)
    IN SubSeq(sorted, 1, IF Len(sorted) < DefaultMaxVisible THEN Len(sorted)
                         ELSE DefaultMaxVisible)

\* lines 69-98: what parseAmenities returns once the lookup has handed it
\* amenityDetails (lines 73-75: without ids it returns [] before any lookup)
parseAmenities(inUnit, inBuilding, amenityDetails) ==
    LET inUnitIds == Elements(parseJson(inUnit))
        mapped == [i \in 1..Len(amenityDetails) |-> MapAmenity(inUnitIds, amenityDetails[i])]
    IN IF allAmenityIds(inUnit, inBuilding) = <<>> THEN <<>>
       ELSE SortByPriority(mapped)

\* every order of the elements of S
RECURSIVE Orders(_)
Orders(S) ==
    IF S = {} THEN {<<>>}
    ELSE UNION {{<<x>> \o p : p \in Orders(S \ {x})} : x \in S}

\* lines 118-121: select _id, Name where _id in amenityIds: the rows whose id
\* is asked for, each once, in an order the database chooses
QueryData(amenityIds) ==
    {[i \in 1..Len(order) |-> [_id |-> order[i], Name |-> AmenityTable[order[i]]]] :
        order \in Orders(Range(amenityIds) \cap DOMAIN AmenityTable)}

\* what the lookup comes to: the API is not initialized (line 112), the query
\* reports an error (line 123), throws (line 129), yields no data or yields rows
NoReply == [kind |-> "none", data |-> <<>>]
NotInitialized == [kind |-> "notInitialized", data |-> <<>>]
QueryReplies(amenityIds) ==
    {[kind |-> k, data |-> <<>>] : k \in {"error", "exception", "null"}}
        \cup {[kind |-> "data", data |-> d] : d \in QueryData(amenityIds)}

\* lines 107-133: every outcome but rows yields []
fetchAmenityDetails(reply) == IF reply.kind = "data" THEN reply.data ELSE <<>>

\* lines 143-177: the icons on the card, in list order, and the '+N more' counter
\* (more: whether the counter of line 167 is on the card)
NoAmenityHtml ==
    [empty |-> FALSE, icons |-> <<>>, hiddenCount |-> 0, more |-> FALSE, maxVisible |-> 0]

\* mutant of renderAmenityIcons: the counter is shown from maxVisible amenities on
renderAmenityIconsCounterAtMax(list, maxVisible) ==
    IF Len(list) = 0
    THEN [empty |-> TRUE, icons |-> <<>>, hiddenCount |-> 0, more |-> FALSE,
          maxVisible |-> maxVisible]
    ELSE [empty |-> FALSE,
          icons |-> [i \in 1..(IF Len(list) < maxVisible THEN Len(list) ELSE maxVisible)
                       |-> list[i].name],
          hiddenCount |-> Max(0, Len(list) - maxVisible),
          more |-> Len(list) >= maxVisible,
          maxVisible |-> maxVisible]

renderAmenityIcons(list, maxVisible) ==
    IF Len(list) = 0
    THEN [empty |-> TRUE, icons |-> <<>>, hiddenCount |-> 0, more |-> FALSE,
          maxVisible |-> maxVisible]
    ELSE [empty |-> FALSE,
          icons |-> [i \in 1..(IF Len(list) < maxVisible THEN Len(list) ELSE maxVisible)
                       |-> list[i].name],
          hiddenCount |-> Max(0, Len(list) - maxVisible),
          more |-> Max(0, Len(list) - maxVisible) > 0,
          maxVisible |-> maxVisible]

\* ------------------------------------------------------------------ state
\* listing: the listing record; call: the function that ran last;
\* selectedDays / targetNights: its argument; html: what renderEnhancedPricing
\* put on the card; ret: what interpolatePricing returned; thrown: whether the
\* call ended in an exception
\* inUnitAmenities, inBuildingAmenities: the amenity fields of the listing;
\* reply: what the lookup came to; amenities: what parseAmenities returned;
\* amenityHtml: what renderAmenityIcons made of it
\* page: what showPricingBreakdown did to the page; earlier: a call that was
\* made before and its result; other: a second parseAmenities call, made for
\* another listing while the first is under way
VARIABLES listing, call, selectedDays, targetNights, html, ret, thrown,
          inUnitAmenities, inBuildingAmenities, reply, amenities, amenityHtml,
          page, earlier, other

pricingVars == <<listing, selectedDays, targetNights, html, ret, page>>
amenityVars == <<inUnitAmenities, inBuildingAmenities, reply, amenities, amenityHtml>>
vars == <<pricingVars, call, thrown, amenityVars, earlier, other, priorityTable>>

NoHtml == [nightsCount |-> 0, dynamicPrice |-> 0, startingPrice |-> 0,
           showNormalPrice |-> FALSE]

\* lines 162-238: nothing was done to the page
NoPage == [modal |-> FALSE, pricingTiers |-> <<>>, alert |-> FALSE, error |-> FALSE]

\* no call is remembered
NoCall == [call |-> "none"]

\* no second parseAmenities call
NoOther == [call |-> "none"]

\* no amenity call has been made, nothing is on the page or remembered
NoAmenities ==
    /\ page = NoPage
    /\ earlier = NoCall
    /\ other = NoOther
    /\ priorityTable = AMENITY_PRIORITY_MAP
    /\ inUnitAmenities = Null
    /\ inBuildingAmenities = Null
    /\ reply = NoReply
    /\ amenities = <<>>
    /\ amenityHtml = NoAmenityHtml

Init ==
    /\ \E S \in FieldSets : \E f \in [S -> StoredValues] : listing = MakeListing(S, f)
    /\ call = "none"
    /\ selectedDays = 0
    /\ targetNights = 0
    /\ html = NoHtml
    /\ ret = 0
    /\ thrown = FALSE
    /\ NoAmenities

\* lines 14-18 and 31-32: the schedule selector hands the number of selected
\* days to renderEnhancedPricing, which labels the card with the night count
\* and the price calculateDynamicPrice returns; lines 21-24 and 37-43: the
\* 'Normally from' line; no path of either throws
RenderEnhancedPricing(selectedDaysCount) ==
    /\ call = "none"
    /\ call' = "renderEnhancedPricing"
    /\ selectedDays' = selectedDaysCount
    /\ html' = [nightsCount |-> NightsCount(selectedDaysCount),
                dynamicPrice |-> calculateDynamicPrice(listing, selectedDaysCount),
                startingPrice |-> StartingPrice(listing),
                showNormalPrice |->
                    ShowNormalPrice(StartingPrice(listing),
                                    calculateDynamicPrice(listing, selectedDaysCount))]
    /\ thrown' = FALSE
    /\ UNCHANGED <<listing, targetNights, ret, page, amenityVars, earlier, other, priorityTable>>

\* window.PricingDisplay.interpolatePricing called by another module
InterpolatePricing(nights) ==
    /\ call = "none"
    /\ call' = "interpolatePricing"
    /\ targetNights' = nights
    /\ ret' = interpolatePricing(listing, nights)
    /\ thrown' = FALSE
    /\ UNCHANGED <<listing, selectedDays, html, page, amenityVars, earlier, other, priorityTable>>

\* window.PricingDisplay.getPriceForNights called by another module; the
\* value it returns is a number for every listing of the model
GetPriceForNights(nights) ==
    /\ call = "none"
    /\ call' = "getPriceForNights"
    /\ targetNights' = nights
    /\ ret' = getPriceForNights(listing, nights).v
    /\ thrown' = FALSE
    /\ UNCHANGED <<listing, selectedDays, html, page, amenityVars, earlier, other, priorityTable>>

\* the Details button of the card (line 48): the listing of the card is or
\* is not among window.currentListings
ShowPricingBreakdown(inCurrentListings) ==
    /\ call = "none"
    /\ call' = "showPricingBreakdown"
    /\ page' = showPricingBreakdown(listing, inCurrentListings)
    /\ thrown' = FALSE
    /\ UNCHANGED <<listing, selectedDays, targetNights, html, ret, amenityVars,
                   earlier, other, priorityTable>>

\* the result is consumed and the next call starts from a clean card; the
\* listing and its amenity fields stay
Return ==
    /\ call # "none"
    /\ call' = "none"
    /\ selectedDays' = 0
    /\ targetNights' = 0
    /\ html' = NoHtml
    /\ ret' = 0
    /\ thrown' = FALSE
    /\ page' = NoPage
    /\ reply' = NoReply
    /\ amenities' = <<>>
    /\ amenityHtml' = NoAmenityHtml
    /\ UNCHANGED <<listing, inUnitAmenities, inBuildingAmenities, earlier, other,
                   priorityTable>>

Next ==
    \/ \E d \in 0..MaxDays : RenderEnhancedPricing(d)
    \/ \E t \in 1..MaxTarget : InterpolatePricing(t)
    \/ \E t \in 1..MaxTarget : GetPriceForNights(t)
    \/ \E inCurrentListings \in BOOLEAN : ShowPricingBreakdown(inCurrentListings)
    \/ Return

Spec == Init /\ [][Next]_vars

\* listings in which one rate entry holds malformed data, beside numeric fields
InitMalformed ==
    /\ \E x \in {RateField(n) : n \in Nights} \cup {EmojiField(n) : n \in Nights} :
       \E S \in {T \in FieldSets : x \notin T /\ Cardinality(T) < MaxFields} :
       \E f \in [S -> StoredValues] : \E m \in MalformedValues :
          listing = [MakeListing(S, f) EXCEPT ![x] = m]
    /\ call = "none"
    /\ selectedDays = 0
    /\ targetNights = 0
    /\ html = NoHtml
    /\ ret = 0
    /\ thrown = FALSE
    /\ NoAmenities

SpecMalformed == InitMalformed /\ [][Next]_vars

\* the starting prices that lie within MaxNear of a rate of one Unit
MaxNear == 2
NearValues == {Num(Unit + d) : d \in 1..MaxNear} \cup {Num(Unit - d) : d \in 1..MaxNear}

\* listings whose starting price lies close to a rate
InitSecondary ==
    /\ \E x \in {StartingField, PriceStartingField} :
       \E S \in {T \in FieldSets : x \notin T /\ Cardinality(T) < MaxFields} :
       \E f \in [S -> StoredValues] : \E m \in NearValues :
          listing = [MakeListing(S, f) EXCEPT ![x] = m]
    /\ call = "none"
    /\ selectedDays = 0
    /\ targetNights = 0
    /\ html = NoHtml
    /\ ret = 0
    /\ thrown = FALSE
    /\ NoAmenities

SpecSecondary == InitSecondary /\ [][Next]_vars

\* ----------------------------------------------------- amenities of a card
\* the id lists of at most n ids
SeqsUpTo(n) == UNION {[1..k -> AmenityIds] : k \in 0..n}

\* a listing that offers every amenity
AllAmenities == [i \in 1..MaxAmenityId |-> i]

\* lines 50-51: the fields hold an array of ids; null and a text that is no
\* JSON are what a listing without amenities or with a damaged field holds
InUnitValues == {Arr(ids) : ids \in SeqsUpTo(MaxInUnit) \cup {AllAmenities}} \cup {Null, Text}
InBuildingValues == {Arr(ids) : ids \in SeqsUpTo(MaxInBuilding)} \cup {Null, Text}

InitAmenity ==
    /\ listing = MakeListing({}, <<>>)
    /\ call = "none"
    /\ selectedDays = 0
    /\ targetNights = 0
    /\ html = NoHtml
    /\ ret = 0
    /\ thrown = FALSE
    /\ page = NoPage
    /\ earlier = NoCall
    /\ other = NoOther
    /\ priorityTable = AMENITY_PRIORITY_MAP
    /\ inUnitAmenities \in InUnitValues
    /\ inBuildingAmenities \in InBuildingValues
    /\ reply = NoReply
    /\ amenities = <<>>
    /\ amenityHtml = NoAmenityHtml

\* lines 54-78 and 107-121: parseAmenities runs up to the query; without ids
\* (lines 73-75) or without an initialized API (lines 112-115, then 81-98 on
\* an empty list) it returns at once; when the spread of line 71 throws, the
\* promise is rejected
ParseAmenities(isInitialized) ==
    /\ call = "none"
    /\ thrown' = SpreadThrows(inUnitAmenities, inBuildingAmenities)
    /\ IF SpreadThrows(inUnitAmenities, inBuildingAmenities)
       THEN /\ call' = "parseAmenities"
            /\ UNCHANGED <<reply, amenities>>
       ELSE IF allAmenityIds(inUnitAmenities, inBuildingAmenities) = <<>>
       THEN /\ call' = "parseAmenities"
            /\ reply' = NoReply
            /\ amenities' = parseAmenities(inUnitAmenities, inBuildingAmenities, <<>>)
       ELSE IF ~isInitialized
       THEN /\ call' = "parseAmenities"
            /\ reply' = NotInitialized
            /\ amenities' = parseAmenities(inUnitAmenities, inBuildingAmenities,
                                           fetchAmenityDetails(NotInitialized))
       ELSE /\ call' = "query"
            /\ UNCHANGED <<reply, amenities>>
    /\ UNCHANGED <<pricingVars, inUnitAmenities, inBuildingAmenities, amenityHtml,
                   earlier, other, priorityTable>>

\* mutant of QueryReturns: an exception of the query is not caught
QueryReturnsNoCatch ==
    /\ call = "query"
    /\ call' = "parseAmenities"
    /\ \E r \in QueryReplies(allAmenityIds(inUnitAmenities, inBuildingAmenities)) :
          /\ reply' = r
          /\ amenities' = parseAmenities(inUnitAmenities, inBuildingAmenities,
                                         fetchAmenityDetails(r))
          /\ thrown' = (r.kind = "exception")
    /\ UNCHANGED <<pricingVars, inUnitAmenities, inBuildingAmenities, amenityHtml,
                   earlier, other, priorityTable>>

\* mutant of QueryReturns: a name that is not in the priority table is entered
\* into it, so the table remembers the names earlier calls met
QueryReturnsLearnsNames ==
    /\ call = "query"
    /\ call' = "parseAmenities"
    /\ \E r \in QueryReplies(allAmenityIds(inUnitAmenities, inBuildingAmenities)) :
          /\ reply' = r
          /\ amenities' = parseAmenities(inUnitAmenities, inBuildingAmenities,
                                         fetchAmenityDetails(r))
          /\ priorityTable' =
                [k \in DOMAIN priorityTable
                      \cup {ToLowerCase(r.data[i].Name) : i \in 1..Len(r.data)} |->
                   IF k \in DOMAIN priorityTable THEN priorityTable[k] ELSE 0]
    /\ thrown' = FALSE
    /\ UNCHANGED <<pricingVars, inUnitAmenities, inBuildingAmenities, amenityHtml,
                   earlier, other>>

\* lines 118-132 and 78-98: the query comes back, fetchAmenityDetails returns
\* and parseAmenities maps, sorts and returns
QueryReturns ==
    /\ call = "query"
    /\ call' = "parseAmenities"
    /\ \E r \in QueryReplies(allAmenityIds(inUnitAmenities, inBuildingAmenities)) :
          /\ reply' = r
          /\ amenities' = parseAmenities(inUnitAmenities, inBuildingAmenities,
                                         fetchAmenityDetails(r))
    /\ thrown' = FALSE
    /\ UNCHANGED <<pricingVars, inUnitAmenities, inBuildingAmenities, amenityHtml,
                   earlier, other, priorityTable>>

\* mutant of RenderAmenityIcons: the list is cut in place (splice for slice)
RenderAmenityIconsInPlace(maxVisible) ==
    /\ call = "parseAmenities"
    /\ ~thrown
    /\ call' = "renderAmenityIcons"
    /\ amenityHtml' = renderAmenityIcons(amenities, maxVisible)
    /\ amenities' = SubSeq(amenities, 1, IF Len(amenities) < maxVisible THEN Len(amenities)
                                         ELSE maxVisible)
    /\ thrown' = FALSE
    /\ UNCHANGED <<pricingVars, inUnitAmenities, inBuildingAmenities, reply,
                   earlier, other, priorityTable>>

\* lines 143-177: the card renders the list parseAmenities returned
RenderAmenityIcons(maxVisible) ==
    /\ call = "parseAmenities"
    /\ ~thrown
    /\ call' = "renderAmenityIcons"
    /\ amenityHtml' = renderAmenityIcons(amenities, maxVisible)
    /\ thrown' = FALSE
    /\ UNCHANGED <<pricingVars, inUnitAmenities, inBuildingAmenities, reply, amenities,
                   earlier, other, priorityTable>>

NextAmenity ==
    \/ \E isInitialized \in BOOLEAN : ParseAmenities(isInitialized)
    \/ QueryReturns
    \/ \E maxVisible \in 1..MaxVisible \cup {DefaultMaxVisible} :
          RenderAmenityIcons(maxVisible)

SpecAmenity == InitAmenity /\ [][NextAmenity]_vars

\* what an amenity field holds when it is not a list of ids: null, a number,
\* an object, a text that is no JSON, a JSON text that is no array
NoListValues == {Null, Num(Unit), Obj, Text, Json(Null), Json(Num(Unit)), Json(Obj)}

\* lines 50-51: a list of ids comes as an array or as its JSON text
ListValues(n) == {Arr(ids) : ids \in SeqsUpTo(n)} \cup {Json(Arr(ids)) : ids \in SeqsUpTo(n)}

\* listings in which one amenity field at least holds no list of ids
InitMalformedAmenity ==
    /\ listing = MakeListing({}, <<>>)
    /\ call = "none"
    /\ selectedDays = 0
    /\ targetNights = 0
    /\ html = NoHtml
    /\ ret = 0
    /\ thrown = FALSE
    /\ page = NoPage
    /\ earlier = NoCall
    /\ other = NoOther
    /\ priorityTable = AMENITY_PRIORITY_MAP
    /\ \/ /\ inUnitAmenities \in NoListValues
          /\ inBuildingAmenities \in ListValues(MaxInBuilding) \cup NoListValues
       \/ /\ inUnitAmenities \in ListValues(MaxInUnit)
          /\ inBuildingAmenities \in NoListValues
    /\ reply = NoReply
    /\ amenities = <<>>
    /\ amenityHtml = NoAmenityHtml

SpecMalformedAmenity == InitMalformedAmenity /\ [][NextAmenity]_vars

\* --------------------------------------------------------- the two modules
\* a page that holds both modules: every operation of either can be called
\* on a listing, in any order
InitBoth == Init \/ InitAmenity

NextBoth == Next \/ NextAmenity

SpecBoth == InitBoth /\ [][NextBoth]_vars

\* ------------------------------------------------------ the same call again
\* the argument and the result of the call that has just returned
CallArgument ==
    CASE call = "renderEnhancedPricing" -> selectedDays
      [] call \in {"interpolatePricing", "getPriceForNights"} -> targetNights
      [] OTHER -> 0

CallResult ==
    CASE call = "renderEnhancedPricing" -> <<html.dynamicPrice>>
      [] call \in {"interpolatePricing", "getPriceForNights"} -> <<ret>>
      [] OTHER -> amenities

Returned ==
    /\ call \in {"renderEnhancedPricing", "interpolatePricing", "getPriceForNights",
                  "parseAmenities"}
    /\ ~thrown

\* the caller keeps the result of a call, to compare it with a later one
Remember ==
    /\ Returned
    /\ earlier = NoCall
    /\ earlier' = [call |-> call, argument |-> CallArgument, result |-> CallResult,
                   reply |-> reply]
    /\ UNCHANGED <<pricingVars, call, thrown, amenityVars, other, priorityTable>>

\* the listings and the id lists of the calls that are made twice: fewer
\* than MaxFields fields with a price each, or in-unit amenities
InitTwice ==
    \/ /\ \E S \in {T \in FieldSets : Cardinality(T) < MaxFields} :
          \E f \in [S -> {Num(k * Unit) : k \in 1..MaxPrice}] : listing = MakeListing(S, f)
       /\ call = "none"
       /\ selectedDays = 0
       /\ targetNights = 0
       /\ html = NoHtml
       /\ ret = 0
       /\ thrown = FALSE
       /\ NoAmenities
    \/ /\ InitAmenity
       /\ inUnitAmenities \in {Arr(ids) : ids \in SeqsUpTo(MaxInUnit)}
       /\ inBuildingAmenities = Arr(<<>>)

NextTwice == NextBoth \/ Remember

SpecTwice == InitTwice /\ [][NextTwice]_vars

\* ------------------------------------------------ two aggregations at once
\* amenity-utils.js 54-99: a second invocation of parseAmenities, for another
\* listing, while the first one awaits its query. Its parameters and locals
\* (inUnitIds, inBuildingIds, allAmenityIds, amenityDetails, amenities) are
\* its own; other holds them, with the reply to its own query (line 121: the
\* rows of its own ids), and where the first invocation was when the second
\* started and when it returned
OtherCall(inUnit, inBuilding) ==
    [call |-> "none", inUnitAmenities |-> inUnit, inBuildingAmenities |-> inBuilding,
     reply |-> NoReply, amenities |-> <<>>, startedAt |-> call, returnedAt |-> call]

\* two different listings, each with short lists of ids
InitConcurrent ==
    /\ InitAmenity
    /\ inUnitAmenities \in {Arr(ids) : ids \in SeqsUpTo(MaxInBuilding)}
    /\ inBuildingAmenities \in {Arr(ids) : ids \in SeqsUpTo(MaxInBuilding)}

\* lines 54-78 and 107-121 for the second listing, whose id lists the caller
\* passes: up to the query, or to the early returns of lines 73-75 and 112-115
OtherParseAmenities(inUnit, inBuilding, isInitialized) ==
    /\ other = NoOther
    /\ <<inUnit, inBuilding>> # <<inUnitAmenities, inBuildingAmenities>>
    /\ other' =
          IF allAmenityIds(inUnit, inBuilding) = <<>>
          THEN [OtherCall(inUnit, inBuilding) EXCEPT
                   !.call = "parseAmenities",
                   !.amenities = parseAmenities(inUnit, inBuilding, <<>>)]
          ELSE IF ~isInitialized
          THEN [OtherCall(inUnit, inBuilding) EXCEPT
                   !.call = "parseAmenities",
                   !.reply = NotInitialized,
                   !.amenities = parseAmenities(inUnit, inBuilding,
                                                fetchAmenityDetails(NotInitialized))]
          ELSE [OtherCall(inUnit, inBuilding) EXCEPT !.call = "query"]
    /\ UNCHANGED <<pricingVars, call, thrown, amenityVars, earlier, priorityTable>>

\* mutant of OtherQueryReturns: the id lists are kept at module level, where
\* the first invocation has put its own
OtherQueryReturnsSharedIds ==
    /\ other.call = "query"
    /\ \E r \in QueryReplies(allAmenityIds(other.inUnitAmenities, other.inBuildingAmenities)) :
          other' = [other EXCEPT
                       !.call = "parseAmenities",
                       !.reply = r,
                       !.returnedAt = call,
                       !.amenities = parseAmenities(inUnitAmenities, inBuildingAmenities,
                                                    fetchAmenityDetails(r))]
    /\ UNCHANGED <<pricingVars, call, thrown, amenityVars, earlier, priorityTable>>

\* lines 118-132 and 78-98 for the second listing: its query comes back and
\* it maps, sorts and returns
OtherQueryReturns ==
    /\ other.call = "query"
    /\ \E r \in QueryReplies(allAmenityIds(other.inUnitAmenities, other.inBuildingAmenities)) :
          other' = [other EXCEPT
                       !.call = "parseAmenities",
                       !.reply = r,
                       !.returnedAt = call,
                       !.amenities = parseAmenities(other.inUnitAmenities,
                                                    other.inBuildingAmenities,
                                                    fetchAmenityDetails(r))]
    /\ UNCHANGED <<pricingVars, call, thrown, amenityVars, earlier, priorityTable>>

\* the two invocations take their steps in any order
NextConcurrent ==
    \/ \E isInitialized \in BOOLEAN : ParseAmenities(isInitialized)
    \/ QueryReturns
    \/ \E inUnit, inBuilding \in {Arr(ids) : ids \in SeqsUpTo(MaxInBuilding)} :
          \E isInitialized \in BOOLEAN : OtherParseAmenities(inUnit, inBuilding, isInitialized)
    \/ OtherQueryReturns

SpecConcurrent == InitConcurrent /\ [][NextConcurrent]_vars

\* ------------------------------------------------- vocabulary of the claims
Rendered == call = "renderEnhancedPricing"
Interpolated == call = "interpolatePricing"

\* the night count the schedule asks for: n days = n - 1 nights
RequestedNights == selectedDays - 1

SetMax(S) == CHOOSE x \in S : \A y \in S : y <= x
SetMin(S) == CHOOSE x \in S : \A y \in S : x <= y

\* the rate at night count n is known to the exact lookup: one of the two
\* spellings holds a positive value; the rate is the first positive one
ExactKnown(l, n) ==
    n \in Nights /\ (GreaterThanZero(l[RateField(n)]) \/ GreaterThanZero(l[EmojiField(n)]))

ExactRate(l, n) ==
    IF GreaterThanZero(l[RateField(n)]) THEN l[RateField(n)].v ELSE l[EmojiField(n)].v

\* the night counts whose rate is a known point of the table: the value read
\* for the night count ('Price N nights selected', else the emoji field) is
\* positive
KnownNights(l) == {n \in Nights : GreaterThanZero(CollectedPrice(l, n))}
KnownPrice(l, n) == CollectedPrice(l, n).v
KnownBelow(l, t) == {n \in KnownNights(l) : n < t}
KnownAbove(l, t) == {n \in KnownNights(l) : n > t}

\* the known night count closest to t, the smaller one on a tie
Nearest(l, t) ==
    CHOOSE n \in KnownNights(l) :
        \A m \in KnownNights(l) :
            \/ Abs(n - t) < Abs(m - t)
            \/ (Abs(n - t) = Abs(m - t) /\ n <= m)

\* the first of 'Starting nightly price' and price.starting that is a
\* non-zero number, 0 when there is none
FirstNonZeroStart(l) ==
    IF l[StartingField].t = "number" /\ l[StartingField].v # 0 THEN l[StartingField].v
    ELSE IF l[PriceStartingField].t = "number" /\ l[PriceStartingField].v # 0
         THEN l[PriceStartingField].v
    ELSE 0

PositiveStarts(l) ==
    {l[x].v : x \in {y \in {StartingField, PriceStartingField} : GreaterThanZero(l[y])}}

\* ---------------------------------------------------------------------- C1
\* C1 (Exactness): when n = selectedDaysCount - 1 is in 2..7 and the rate for
\* n nights is a known positive value, the price calculateDynamicPrice
\* resolves is exactly that rate, whatever else the listing holds.
C1_Exactness ==
    (Rendered /\ ExactKnown(listing, RequestedNights))
        => html.dynamicPrice = ExactRate(listing, RequestedNights)

\* an exact rate is shown although another rate and a starting price differ
C1_Witness ==
    /\ Rendered
    /\ ExactKnown(listing, RequestedNights)
    /\ html.dynamicPrice = ExactRate(listing, RequestedNights)
    /\ \E m \in KnownNights(listing) :
          m # RequestedNights /\ KnownPrice(listing, m) # html.dynamicPrice
    /\ FirstNonZeroStart(listing) # 0
    /\ FirstNonZeroStart(listing) # html.dynamicPrice

\* ---------------------------------------------------------------------- C2
\* C2 (Interpolation value): when the rate at the target t is unknown and
\* known rates exist strictly below and strictly above t, the price is
\* lower.price + (t - lower.nights) / (upper.nights - lower.nights) *
\* (upper.price - lower.price) over the nearest known night count on each
\* side, and upper.nights - lower.nights is not 0.  The equation is stated
\* multiplied by the night range, so it holds no division.
InterpolationFormula(l, t, price) ==
    LET ln == SetMax(KnownBelow(l, t))
        un == SetMin(KnownAbove(l, t))
        lp == KnownPrice(l, ln)
        up == KnownPrice(l, un)
    IN /\ un - ln # 0
       /\ price * (un - ln) = lp * (un - ln) + (t - ln) * (up - lp)

Bracketed(l, t) == KnownBelow(l, t) # {} /\ KnownAbove(l, t) # {}

C2_InterpolationValue ==
    /\ (Rendered /\ ~ExactKnown(listing, RequestedNights)
                 /\ Bracketed(listing, RequestedNights))
          => InterpolationFormula(listing, RequestedNights, html.dynamicPrice)
    /\ (Interpolated /\ targetNights \notin KnownNights(listing)
                     /\ Bracketed(listing, targetNights))
          => InterpolationFormula(listing, targetNights, ret)

\* rates {3: 1 step, 5: 2 steps}, target 4: halfway, 1.5 steps
C2_Witness ==
    /\ Rendered
    /\ RequestedNights = 4
    /\ KnownNights(listing) = {3, 5}
    /\ KnownPrice(listing, 3) = Unit
    /\ KnownPrice(listing, 5) = 2 * Unit
    /\ 2 * html.dynamicPrice = 3 * Unit

\* ---------------------------------------------------------------------- C3
\* C3 (Bracket selection): whenever interpolatePricing interpolates for a
\* target whose rate is unknown, the
\* lower point it picks is the known rate with the greatest night count
\* strictly below the target and the upper point the known rate with the
\* smallest night count strictly above it, so no known rate lies strictly
\* between the two, however many points the table holds.
ChosenBracketIsNearest(l, t) ==
    LET avail == AvailablePrices(l)
        lower == LowerPrices(avail, t)
        higher == HigherPrices(avail, t)
    IN (Len(avail) >= 2 /\ lower # <<>> /\ higher # <<>>) =>
          /\ lower[1].nights = SetMax(KnownBelow(l, t))
          /\ higher[1].nights = SetMin(KnownAbove(l, t))
          /\ lower[1].price = KnownPrice(l, lower[1].nights)
          /\ higher[1].price = KnownPrice(l, higher[1].nights)
          /\ ~ \E n \in KnownNights(l) : lower[1].nights < n /\ n < higher[1].nights

C3_BracketSelection ==
    /\ (Rendered /\ RequestedNights \in Nights /\ ~ExactKnown(listing, RequestedNights))
          => ChosenBracketIsNearest(listing, RequestedNights)
    /\ (Interpolated /\ targetNights \notin KnownNights(listing))
          => ChosenBracketIsNearest(listing, targetNights)

\* three known points, two of them on one side of the target: the farther
\* one has another price and is left out of the result
C3_Witness ==
    /\ Interpolated
    /\ Cardinality(KnownNights(listing)) = 3
    /\ targetNights \notin KnownNights(listing)
    /\ Bracketed(listing, targetNights)
    /\ \E far \in KnownBelow(listing, targetNights) :
          /\ far # SetMax(KnownBelow(listing, targetNights))
          /\ KnownPrice(listing, far)
                # KnownPrice(listing, SetMax(KnownBelow(listing, targetNights)))
    /\ InterpolationFormula(listing, targetNights, ret)

\* ---------------------------------------------------------------------- C4
\* C4 (Zero-as-missing): a rate entry that is zero or negative is treated as
\* missing: the price resolved for a listing that holds a non-positive entry
\* at any night count, the target included, equals the price resolved for
\* the same listing with that entry removed.
RateEntries == {RateField(n) : n \in Nights} \cup {EmojiField(n) : n \in Nights}

NonPositive(x) == x.t = "number" /\ x.v <= 0

C4_ZeroAsMissing ==
    (Rendered /\ RequestedNights >= 1) =>
        \A x \in RateEntries :
            NonPositive(listing[x]) =>
                html.dynamicPrice =
                    calculateDynamicPrice([listing EXCEPT ![x] = Undefined], selectedDays)

\* ---------------------------------------------------------------------- C5
\* C5 (Nearest neighbor, single known rate): when exactly one night count
\* has a known positive rate and it is not the target, the resolved price is
\* that rate.  Stated for targets in 2..7.
C5_SingleKnownRate ==
    (Rendered /\ RequestedNights \in Nights
              /\ Cardinality(KnownNights(listing)) = 1
              /\ {n \in Nights : ExactKnown(listing, n)} = KnownNights(listing)
              /\ RequestedNights \notin KnownNights(listing))
        => html.dynamicPrice = KnownPrice(listing, Nearest(listing, RequestedNights))

\* ---------------------------------------------------------------------- C6
\* C6 (Nearest neighbor, one-sided), as claimed: for every positive target
\* whose rate is unknown, when two or more rates are known and all of them lie
\* on the same side of the target, the resolved price is the price of the
\* known rate closest to the target.
OneSided(l, t) ==
    /\ Cardinality(KnownNights(l)) >= 2
    /\ (KnownBelow(l, t) = {} \/ KnownAbove(l, t) = {})

C6_OneSidedAnyTarget ==
    (Rendered /\ RequestedNights >= 1 /\ ~ExactKnown(listing, RequestedNights)
              /\ OneSided(listing, RequestedNights))
        => html.dynamicPrice = KnownPrice(listing, Nearest(listing, RequestedNights))

\* C6 as amended: the same for a target in 2..7 resolved by
\* calculateDynamicPrice, and for every target handed to interpolatePricing
\* itself; a tie in distance cannot occur among rates on one side.
C6_OneSidedNearest ==
    /\ (Rendered /\ RequestedNights \in Nights /\ ~ExactKnown(listing, RequestedNights)
                 /\ OneSided(listing, RequestedNights))
          => html.dynamicPrice = KnownPrice(listing, Nearest(listing, RequestedNights))
    /\ (Interpolated /\ targetNights \notin KnownNights(listing)
                     /\ OneSided(listing, targetNights))
          => ret = KnownPrice(listing, Nearest(listing, targetNights))

\* two known rates of different price below the target: the nearer one is shown
C6_Witness ==
    /\ Rendered
    /\ RequestedNights \in Nights
    /\ ~ExactKnown(listing, RequestedNights)
    /\ Cardinality(KnownNights(listing)) = 2
    /\ KnownAbove(listing, RequestedNights) = {}
    /\ KnownPrice(listing, SetMax(KnownNights(listing)))
          # KnownPrice(listing, SetMin(KnownNights(listing)))
    /\ html.dynamicPrice = KnownPrice(listing, SetMax(KnownNights(listing)))

\* ---------------------------------------------------------------------- C7
\* C7 (Total fallback): when no night count in 2..7 has a known positive
\* rate, the resolved price is the listing's starting price if that is
\* positive, and 0 when the listing has no positive starting price.
C7_TotalFallback ==
    (Rendered /\ RequestedNights >= 1
              /\ \A n \in Nights : ~ExactKnown(listing, n))
        => IF PositiveStarts(listing) # {}
           THEN html.dynamicPrice \in PositiveStarts(listing)
           ELSE html.dynamicPrice = 0

\* ---------------------------------------------------------------------- C8
\* C8 (No range check), as claimed: a positive target outside 2..7 is
\* resolved from the known rates: with at least one known rate the result is
\* the nearest known rate, not the starting price.
C8_NoRangeCheck ==
    (Rendered /\ RequestedNights >= 1 /\ RequestedNights \notin Nights
              /\ KnownNights(listing) # {})
        => html.dynamicPrice = KnownPrice(listing, Nearest(listing, RequestedNights))

\* C8 as amended: a positive target outside 2..7 is never resolved from the
\* rate table; the result is the starting-price fallback (the first non-zero
\* of the two starting-price fields, 0 when there is none), whatever rates
\* are known.
C8_RangeCheck ==
    (Rendered /\ RequestedNights >= 1 /\ RequestedNights \notin Nights)
        => html.dynamicPrice = FirstNonZeroStart(listing)

\* 8 nights asked, two rates known, and the starting price is shown
C8_Witness ==
    /\ Rendered
    /\ RequestedNights > MaxNights
    /\ Cardinality(KnownNights(listing)) >= 2
    /\ FirstNonZeroStart(listing) > 0
    /\ FirstNonZeroStart(listing) # KnownPrice(listing, Nearest(listing, RequestedNights))
    /\ html.dynamicPrice = FirstNonZeroStart(listing)

\* ---------------------------------------------------------------------- C9
\* C9 (InvalidQuery), as claimed: a request whose target night count is not
\* positive ends in an error and is not answered with a price.
C9_InvalidQuery ==
    (Rendered /\ RequestedNights <= 0) => thrown

\* C9 as amended: a request whose target night count is not positive raises
\* no error; the night count is replaced by 1 night, which is outside 2..7,
\* and the request is answered with the starting-price fallback.
C9_ClampedToOneNight ==
    (Rendered /\ RequestedNights <= 0) =>
        /\ ~thrown
        /\ html.nightsCount = MinimumNight
        /\ html.dynamicPrice = FirstNonZeroStart(listing)

\* no day selected: the card reads 1 night and shows the starting price
C9_Witness ==
    /\ Rendered
    /\ RequestedNights < 0
    /\ KnownNights(listing) # {}
    /\ html.nightsCount = 1
    /\ html.dynamicPrice > 0
    /\ html.dynamicPrice = FirstNonZeroStart(listing)

\* --------------------------------------------------------------------- C10
\* C10 (Day-to-night mapping): when N days are selected, N in 2..7, the price
\* shown is the listing's N-night rate.
C10_DaysShowSameNightRate ==
    (Rendered /\ selectedDays \in Nights /\ ExactKnown(listing, selectedDays))
        => html.dynamicPrice = ExactRate(listing, selectedDays)

\* --------------------------------------------------------------------- C11
\* the branch of the resolution that applies to target t, in the order exact,
\* interpolated, nearest neighbor, starting price, unavailable
Source(l, t) ==
    IF ExactKnown(l, t) THEN "Exact"
    ELSE IF t \in Nights /\ Cardinality(KnownNights(l)) >= 2 /\ Bracketed(l, t)
         THEN "Interpolated"
    ELSE IF t \in Nights /\ Cardinality(KnownNights(l)) >= 2 THEN "NearestNeighbor"
    ELSE IF FirstNonZeroStart(l) # 0 THEN "StartingPriceFallback"
    ELSE "Unavailable"

SourceTags == {"Exact", "Interpolated", "NearestNeighbor", "StartingPriceFallback",
               "Unavailable"}

AmountOfSource(l, t, amount) ==
    CASE Source(l, t) = "Exact" -> amount = ExactRate(l, t)
      [] Source(l, t) = "Interpolated" -> InterpolationFormula(l, t, amount)
      [] Source(l, t) = "NearestNeighbor" -> amount = KnownPrice(l, Nearest(l, t))
      [] Source(l, t) = "StartingPriceFallback" -> amount = FirstNonZeroStart(l)
      [] Source(l, t) = "Unavailable" -> amount = 0

C12_NonNegative ==
    Rendered => html.dynamicPrice >= 0

\* --------------------------------------------------------------------- C13
\* C13 (Both field spellings): a positive rate for night count N stored under
\* either spelling is a known rate for the exact lookup and for the point
\* collection of interpolatePricing alike, whatever the other spelling
\* holds: both see the same set of known night counts.
CollectedNights(l) ==
    {AvailablePrices(l)[i].nights : i \in 1..Len(AvailablePrices(l))}

\* the listing that holds every rate that is positive under either spelling
\* under the first spelling alone
UnderOneSpelling(l) ==
    [x \in Fields |->
        IF \E n \in Nights : x = RateField(n)
        THEN LET n == CHOOSE k \in Nights : x = RateField(k)
             IN IF GreaterThanZero(l[RateField(n)]) THEN l[RateField(n)]
                ELSE IF GreaterThanZero(l[EmojiField(n)]) THEN l[EmojiField(n)]
                ELSE Undefined
        ELSE IF \E n \in Nights : x = EmojiField(n) THEN Undefined
        ELSE l[x]]

C13_BothSpellings ==
    /\ Interpolated =>
          /\ \A n \in Nights :
                (GreaterThanZero(listing[RateField(n)])
                    \/ GreaterThanZero(listing[EmojiField(n)]))
                  <=> n \in CollectedNights(listing)
          /\ ret = interpolatePricing(UnderOneSpelling(listing), targetNights)
    /\ Rendered =>
          html.dynamicPrice = calculateDynamicPrice(UnderOneSpelling(listing), selectedDays)

\* --------------------------------------------------------------------- C14
\* C14 (Malformed rate data): a rate entry that is not numeric (text, null,
\* object) is treated as missing: no error is raised and the resolved price
\* equals the price resolved for the same listing without that entry.
IsMalformed(x) == x \in MalformedValues

C14_MalformedAsMissing ==
    Rendered =>
        /\ ~thrown
        /\ \A x \in RateEntries :
              IsMalformed(listing[x]) =>
                  html.dynamicPrice =
                      calculateDynamicPrice([listing EXCEPT ![x] = Undefined], selectedDays)

\* ------------------------------------------------- amenities: vocabulary
\* parseAmenities has returned (and the card may have rendered its list)
Aggregated == call \in {"parseAmenities", "renderAmenityIcons"}

InUnitList == Elements(parseJson(inUnitAmenities))
InBuildingList == Elements(parseJson(inBuildingAmenities))
RequestedIds == Range(InUnitList) \cup Range(InBuildingList)

\* the rows the lookup handed to parseAmenities, and their ids
ReturnedRows == fetchAmenityDetails(reply)
ReturnedIds == {ReturnedRows[i]._id : i \in 1..Len(ReturnedRows)}

\* the places of id in the aggregated output
EntriesOf(id) == {i \in 1..Len(amenities) : amenities[i].id = id}

\* the place of id among the rows, and its first place in the input
RowIndex(id) == CHOOSE i \in 1..Len(ReturnedRows) : ReturnedRows[i]._id = id
InputIndex(id) ==
    SetMin({i \in 1..Len(InUnitList \o InBuildingList) : (InUnitList \o InBuildingList)[i] = id})

\* --------------------------------------------------------------------- C15
\* C15 (Amenity merge precedence), as claimed: an id present in both id lists
\* appears exactly once in the aggregated output, tagged 'in-unit'; an id
\* present only in the in-building list is tagged 'in-building'.
C15_MergePrecedence ==
    Aggregated =>
        \A id \in AmenityIds :
            /\ (id \in Range(InUnitList) /\ id \in Range(InBuildingList)) =>
                  /\ Cardinality(EntriesOf(id)) = 1
                  /\ \A i \in EntriesOf(id) : amenities[i].category = "in-unit"
            /\ (id \notin Range(InUnitList) /\ id \in Range(InBuildingList)) =>
                  /\ Cardinality(EntriesOf(id)) = 1
                  /\ \A i \in EntriesOf(id) : amenities[i].category = "in-building"

\* C15 as amended: an id for which the lookup returns a row appears exactly
\* once in the aggregated output, however often it is listed; it is tagged
\* 'in-unit' when the in-unit list holds it (also when the in-building list
\* holds it too) and 'in-building' otherwise; an id for which the lookup
\* returns no row (no record, or a failed lookup) does not appear.
C15_MergePrecedenceOfReturnedRows ==
    Aggregated =>
        \A id \in AmenityIds :
            /\ id \in ReturnedIds =>
                  /\ Cardinality(EntriesOf(id)) = 1
                  /\ \A i \in EntriesOf(id) :
                        amenities[i].category =
                            IF id \in Range(InUnitList) THEN "in-unit" ELSE "in-building"
            /\ id \notin ReturnedIds => EntriesOf(id) = {}

\* an id that both lists hold, second in the in-unit list, is there once,
\* tagged 'in-unit', beside one that only the in-building list holds
C15_Witness ==
    /\ Aggregated
    /\ Len(InUnitList) = 2
    /\ InUnitList[1] # InUnitList[2]
    /\ InBuildingList = <<InUnitList[2]>>
    /\ Cardinality(EntriesOf(InUnitList[2])) = 1
    /\ \A i \in EntriesOf(InUnitList[2]) : amenities[i].category = "in-unit"

\* --------------------------------------------------------------------- C16
\* C16 (Unknown id visibility), as claimed: a requested id without a record
\* in the lookup table still appears in the aggregated output, with lowest
\* priority, and causes no failure.
C16_UnknownIdVisible ==
    Aggregated =>
        /\ ~thrown
        /\ \A id \in RequestedIds \ DOMAIN AmenityTable :
              \E i \in EntriesOf(id) : amenities[i].priority = DefaultPriority

\* C16 as amended: a requested id without a record in the lookup table does
\* not appear in the aggregated output: parseAmenities maps the rows the
\* lookup returns and nothing else, so the id is left out silently; it causes
\* no failure and the ids that have a record appear as they do without it.
C16_UnknownIdOmitted ==
    Aggregated =>
        /\ ~thrown
        /\ \A id \in RequestedIds \ DOMAIN AmenityTable : EntriesOf(id) = {}
        /\ reply.kind = "data" =>
              \A id \in RequestedIds \cap DOMAIN AmenityTable : EntriesOf(id) # {}

\* an id without a record was asked for together with one that has a record
C16_Witness ==
    /\ Aggregated
    /\ reply.kind = "data"
    /\ RequestedIds \ DOMAIN AmenityTable # {}
    /\ Len(amenities) = 1
    /\ Cardinality(RequestedIds) = 2

\* --------------------------------------------------------------------- C17
\* a name is in the priority table when it matches a key ignoring letter case
Recognized(name) == ToLowerCase(name) \in DOMAIN AMENITY_PRIORITY_MAP
TablePriority(name) == AMENITY_PRIORITY_MAP[ToLowerCase(name)]

DistinctPriorities ==
    \A i, j \in 1..Len(amenities) : i # j => amenities[i].priority # amenities[j].priority

Reverse(seq) == [i \in 1..Len(seq) |-> seq[Len(seq) + 1 - i]]

\* C17 (Amenity ranking): the aggregated list is in non-decreasing priority
\* of the static table, every amenity whose name is not in the table comes
\* after every amenity whose name is, and when the priorities are pairwise
\* distinct the list is the same for every order of the lookup rows and of
\* the input ids.
C17_Ranking ==
    Aggregated =>
        /\ \A i, j \in 1..Len(amenities) :
              i < j =>
                  /\ Recognized(amenities[j].name) => Recognized(amenities[i].name)
                  /\ (Recognized(amenities[i].name) /\ Recognized(amenities[j].name)) =>
                        TablePriority(amenities[i].name) <= TablePriority(amenities[j].name)
        /\ (reply.kind = "data" /\ DistinctPriorities) =>
              \A d \in QueryData(InUnitList \o InBuildingList) :
                  /\ amenities = parseAmenities(inUnitAmenities, inBuildingAmenities, d)
                  /\ amenities = parseAmenities(Arr(Reverse(InUnitList)),
                                                Arr(Reverse(InBuildingList)), d)

\* Closet and Unknown-X are asked for before WiFi, the rows come with
\* Unknown-X first, and the list is WiFi, Closet, Unknown-X
C17_Witness ==
    /\ Aggregated
    /\ InUnitList = <<4, 7>>
    /\ InBuildingList = <<1>>
    /\ Len(amenities) = 3
    /\ ReturnedRows[1].Name = "Unknown-X"
    /\ amenities[1].name = "WiFi"
    /\ amenities[2].name = "Closet"
    /\ amenities[3].name = "Unknown-X"

\* --------------------------------------------------------------------- C18
\* C18 (Ranking stability), as claimed: amenities of equal priority keep the
\* relative order in which their ids appear in the input (in-unit ids, then
\* in-building ids), whatever order the lookup returns its rows in.
C18_TiesInInputOrder ==
    Aggregated =>
        \A i, j \in 1..Len(amenities) :
            (i < j /\ amenities[i].priority = amenities[j].priority) =>
                InputIndex(amenities[i].id) < InputIndex(amenities[j].id)

\* C18 as amended: amenities of equal priority keep the relative order of
\* their rows in the lookup's reply; the sort is stable over the rows, the
\* order of the ids in the input plays no part.
C18_TiesInRowOrder ==
    Aggregated =>
        \A i, j \in 1..Len(amenities) :
            (i < j /\ amenities[i].priority = amenities[j].priority) =>
                RowIndex(amenities[i].id) < RowIndex(amenities[j].id)

\* Washer is asked for before Dryer, the rows come Dryer first, and Dryer is
\* listed before Washer
C18_Witness ==
    /\ Aggregated
    /\ InUnitList = <<5, 6>>
    /\ Len(amenities) = 2
    /\ ReturnedRows[1].Name = "Dryer"
    /\ amenities[1].name = "Dryer"
    /\ amenities[2].name = "Washer"
    /\ amenities[1].priority = amenities[2].priority

\* --------------------------------------------------------------------- C19
\* the name without its leading and trailing blanks
Trim(name) == IF name = " WiFi " THEN "WiFi" ELSE name

\* C19 (Name normalization), as claimed: the priority is found ignoring
\* letter case and leading/trailing whitespace: 'WIFI' and ' WiFi ' receive
\* the priority of WiFi.
C19_CaseAndBlanksIgnored ==
    Aggregated =>
        \A i \in 1..Len(amenities) :
            Trim(amenities[i].name) \in {"WiFi", "WIFI"} => amenities[i].priority = 1

\* C19 as amended: the priority is found ignoring letter case only: 'WIFI'
\* and 'WiFi' receive priority 1, 'Closet' 12, 'Washer' and 'Dryer' 7; blanks
\* are not removed, so ' WiFi ' is unrecognized and gets priority 999.
C19_CaseIgnoredOnly ==
    Aggregated =>
        \A i \in 1..Len(amenities) :
            /\ amenities[i].name \in {"WiFi", "WIFI"} => amenities[i].priority = 1
            /\ amenities[i].name = "Closet" => amenities[i].priority = 12
            /\ amenities[i].name \in {"Washer", "Dryer"} => amenities[i].priority = 7
            /\ amenities[i].name \in {" WiFi ", "Unknown-X"} =>
                  amenities[i].priority = DefaultPriority

\* 'WIFI' is listed before ' WiFi ', which is ranked as unrecognized
C19_Witness ==
    /\ Aggregated
    /\ Len(amenities) = 2
    /\ amenities[1].name = "WIFI"
    /\ amenities[1].priority = 1
    /\ amenities[2].name = " WiFi "
    /\ amenities[2].priority = DefaultPriority

\* --------------------------------------------------------------------- C20
\* C20 (No truncation in aggregation): parseAmenities returns one entry per
\* row of the lookup, which are the distinct requested ids that have a
\* record, also when they are more than the visible maximum; the renderer
\* slices, and the list it was given stays whole.
C20_NoTruncation ==
    Aggregated =>
        /\ Len(amenities) = Len(ReturnedRows)
        /\ {amenities[i].id : i \in 1..Len(amenities)} = ReturnedIds
        /\ reply.kind = "data" =>
              /\ ReturnedIds = RequestedIds \cap DOMAIN AmenityTable
              /\ Len(amenities) = Cardinality(RequestedIds \cap DOMAIN AmenityTable)
        /\ call = "renderAmenityIcons" =>
              Len(amenityHtml.icons) + amenityHtml.hiddenCount = Len(amenities)

\* seven amenities are returned and the card, with the default maximum of 6,
\* shows six icons and '+1 more'
C20_Witness ==
    /\ call = "renderAmenityIcons"
    /\ amenityHtml.maxVisible = DefaultMaxVisible
    /\ Len(amenities) = DefaultMaxVisible + 1
    /\ Len(amenityHtml.icons) = DefaultMaxVisible
    /\ amenityHtml.hiddenCount = 1

\* --------------------------------------------------------------------- C21
\* C21 (Visible/remainder split): for a non-empty list of length L,
\* renderAmenityIcons(amenities, maxVisible) renders min(L, maxVisible) icons,
\* the first ones of the list in list order, and a '+N more' counter if and
\* only if L > maxVisible, with N = L - maxVisible; icons + N = L.
C21_VisibleAndRemainder ==
    (call = "renderAmenityIcons" /\ Len(amenities) > 0) =>
        LET L == Len(amenities)
            maxVisible == amenityHtml.maxVisible
            shown == Len(amenityHtml.icons)
        IN /\ ~amenityHtml.empty
           /\ shown = SetMin({L, maxVisible})
           /\ \A i \in 1..shown : amenityHtml.icons[i] = amenities[i].name
           /\ amenityHtml.more <=> L > maxVisible
           /\ amenityHtml.more => amenityHtml.hiddenCount = L - maxVisible
           /\ shown + (IF amenityHtml.more THEN amenityHtml.hiddenCount ELSE 0) = L

\* three amenities on a card that shows two: two icons and '+1 more'; and
\* the counter is absent when the list just fits
C21_Witness ==
    /\ call = "renderAmenityIcons"
    /\ Len(amenities) = 3
    /\ amenityHtml.maxVisible = 2
    /\ Len(amenityHtml.icons) = 2
    /\ amenityHtml.more
    /\ amenityHtml.hiddenCount = 1

\* --------------------------------------------------------------------- C25
\* C25 (Lookup failure degrades to empty): when the lookup cannot be made or
\* fails (API not initialized, the query returns an error, throws or yields
\* no data), fetchAmenityDetails returns an empty list and parseAmenities
\* resolves to an empty list; it does not reject.
LookupFailed == reply.kind \in {"notInitialized", "error", "exception", "null"}

C25_LookupFailureIsEmpty ==
    (Aggregated /\ LookupFailed) =>
        /\ ReturnedRows = <<>>
        /\ amenities = <<>>
        /\ ~thrown

\* ids with a record were asked for and the query reported an error
C25_Witness ==
    /\ Aggregated
    /\ reply.kind = "error"
    /\ RequestedIds \cap DOMAIN AmenityTable # {}
    /\ amenities = <<>>
    /\ ~thrown

\* --------------------------------------------------------------------- C30
\* the result lies between the prices of the bracket around t, is positive,
\* and is the common price when the two prices are equal
WithinBracket(l, t, price) ==
    LET lp == KnownPrice(l, SetMax(KnownBelow(l, t)))
        up == KnownPrice(l, SetMin(KnownAbove(l, t)))
    IN /\ SetMin({lp, up}) <= price
       /\ price <= SetMax({lp, up})
       /\ price > 0
       /\ lp = up => price = lp

\* C30 (Interpolation is bounded by its bracket): whenever interpolatePricing
\* interpolates between a lower and an upper known rate, the result lies
\* between the two bracket prices inclusive, is strictly positive, and equals
\* the common price when both bracket prices are equal.
C30_BoundedByBracket ==
    /\ (Interpolated /\ Bracketed(listing, targetNights))
          => WithinBracket(listing, targetNights, ret)
    /\ (Rendered /\ RequestedNights \in Nights /\ ~ExactKnown(listing, RequestedNights)
                 /\ Bracketed(listing, RequestedNights))
          => WithinBracket(listing, RequestedNights, html.dynamicPrice)

\* a falling table, {2: 2 steps, 5: 1 step}, target 3: strictly between
C30_Witness ==
    /\ Interpolated
    /\ targetNights = 3
    /\ KnownNights(listing) = {2, 5}
    /\ KnownPrice(listing, 2) = 2 * Unit
    /\ KnownPrice(listing, 5) = Unit
    /\ ret < 2 * Unit
    /\ ret > Unit

\* --------------------------------------------------------------------- C27
\* C27 (Secondary price): renderEnhancedPricing shows the 'Normally from'
\* starting price if and only if the starting price is positive and differs
\* from the displayed dynamic price by more than 1 in absolute value; when no
\* rate is known and the price shown is the starting price itself, the
\* secondary price is not shown.
C27_SecondaryPrice ==
    Rendered =>
        /\ html.showNormalPrice <=>
              /\ FirstNonZeroStart(listing) > 0
              /\ \/ html.dynamicPrice - FirstNonZeroStart(listing) > 1
                 \/ FirstNonZeroStart(listing) - html.dynamicPrice > 1
        /\ html.showNormalPrice => html.startingPrice = FirstNonZeroStart(listing)
        /\ (\A n \in Nights : ~ExactKnown(listing, n) /\ n \notin KnownNights(listing))
              => ~html.showNormalPrice

\* the rate shown is one Unit and the starting price lies 1 above it: the
\* difference is not significant and the secondary price is not shown
C27_Witness ==
    /\ Rendered
    /\ html.dynamicPrice = Unit
    /\ FirstNonZeroStart(listing) = Unit + 1
    /\ ~html.showNormalPrice

\* --------------------------------------------------------------------- C28
BrokenDown == call = "showPricingBreakdown"

\* the night counts that have a positive rate under either spelling
PositiveRateNights(l) == {n \in Nights : ExactKnown(l, n)}

\* C28 (Pricing breakdown): for a listing found in the current listings,
\* showPricingBreakdown lists exactly the night counts in 2..7 that have a
\* positive rate, in ascending order, each with total = rate x night count;
\* when there is none, or the listing is not found, no modal is added and an
\* alert or an error log is the only effect.
C28_PricingBreakdown ==
    BrokenDown =>
        /\ (~page.error /\ PositiveRateNights(listing) # {}) =>
              /\ page.modal
              /\ {page.pricingTiers[i].nights : i \in 1..Len(page.pricingTiers)}
                    = PositiveRateNights(listing)
              /\ \A i, j \in 1..Len(page.pricingTiers) :
                    i < j => page.pricingTiers[i].nights < page.pricingTiers[j].nights
              /\ \A i \in 1..Len(page.pricingTiers) :
                    /\ page.pricingTiers[i].perNightPrice
                          = ExactRate(listing, page.pricingTiers[i].nights)
                    /\ page.pricingTiers[i].totalPrice
                          = page.pricingTiers[i].perNightPrice * page.pricingTiers[i].nights
        /\ (page.error \/ PositiveRateNights(listing) = {}) =>
              /\ ~page.modal
              /\ page.alert \/ page.error

\* --------------------------------------------------------------------- C29
GotPrice == call = "getPriceForNights"

\* C29 (getPriceForNights): for a night count in 2..7 it returns the known
\* positive rate for exactly that night count and 0 when that rate is
\* missing or not positive, never an interpolated or neighboring rate; when
\* it returns a non-zero value, calculateDynamicPrice for that many nights
\* returns the same value.
C29_GetPriceForNights ==
    (GotPrice /\ targetNights \in Nights) =>
        /\ ExactKnown(listing, targetNights) => ret = ExactRate(listing, targetNights)
        /\ ~ExactKnown(listing, targetNights) => ret = 0
        /\ ret # 0 => ret = calculateDynamicPrice(listing, targetNights + 1)

\* --------------------------------------------------------------------- C26
\* parseAmenities has returned or has been rejected
Settled == call \in {"parseAmenities", "renderAmenityIcons"}

\* C26 (Malformed amenity fields): for every value of an amenity field that
\* is not a list of ids (null, a number, an object, a text that is no JSON, a
\* JSON text that is no array such as 'null', '5' or '{}'), parseAmenities
\* treats the field as an empty id list and completes without throwing.
C26_MalformedFieldIsEmpty ==
    Settled =>
        /\ ~thrown
        /\ inUnitAmenities \in NoListValues =>
              amenities = parseAmenities(Arr(<<>>), inBuildingAmenities, ReturnedRows)
        /\ inBuildingAmenities \in NoListValues =>
              amenities = parseAmenities(inUnitAmenities, Arr(<<>>), ReturnedRows)

\* --------------------------------------------------------------------- C23
\* C23 (No side effects): no operation of either module changes the listing
\* record, the input id lists or AMENITY_PRIORITY_MAP, and renderAmenityIcons
\* leaves the amenity list it is given unchanged.
C23_NoSideEffects ==
    [][ /\ listing' = listing
        /\ inUnitAmenities' = inUnitAmenities
        /\ inBuildingAmenities' = inBuildingAmenities
        /\ priorityTable' = priorityTable
        /\ priorityTable' = AMENITY_PRIORITY_MAP
        /\ call' = "renderAmenityIcons" => amenities' = amenities ]_vars

\* the renderer has cut a list that is longer than the card shows, and the
\* list and the priority table are what they were
C23_Witness ==
    /\ call = "renderAmenityIcons"
    /\ Len(amenities) > amenityHtml.maxVisible
    /\ Len(amenityHtml.icons) = amenityHtml.maxVisible
    /\ priorityTable = AMENITY_PRIORITY_MAP
    /\ Len(amenities) = Len(ReturnedRows)

\* --------------------------------------------------------------------- C22
\* the call that has just returned was made before with the same argument
\* (the listing and its id lists are the same throughout)
SameCallAgain ==
    /\ Returned
    /\ earlier.call = call
    /\ earlier.argument = CallArgument

\* C22 (Determinism), as claimed: a price resolution or an amenity
\* aggregation (with the same lookup contents) that is made twice with
\* identical inputs, with any other calls in between, yields identical
\* results.
C22_Deterministic ==
    (SameCallAgain /\ (call = "parseAmenities" =>
                          reply.kind = "data" /\ earlier.reply.kind = "data"))
        => CallResult = earlier.result

\* C22 as amended: a price resolution made twice with identical inputs
\* yields identical results; an amenity aggregation made twice with identical
\* inputs yields identical results when the lookup replies with the same
\* rows in the same order (or fails both times); with the same table
\* contents and another order of the rows, amenities of equal priority can
\* change places. No call leaves state that changes a later result.
C22_DeterministicForSameReply ==
    (SameCallAgain /\ (call = "parseAmenities" => reply = earlier.reply))
        => CallResult = earlier.result

\* two aggregations of the same two ids got the same rows and returned the
\* same list, with a price resolved in between
C22_Witness ==
    /\ SameCallAgain
    /\ call = "parseAmenities"
    /\ reply.kind = "data"
    /\ reply = earlier.reply
    /\ Len(amenities) = 2
    /\ CallResult = earlier.result


\* --------------------------------------------------------------------- C24
\* what an invocation with these id lists returns when it runs alone and its
\* query is answered by r
Alone(inUnit, inBuilding, r) ==
    parseAmenities(inUnit, inBuilding, fetchAmenityDetails(r))

\* every entry of result comes from the invocation's own ids
OwnEntries(inUnit, inBuilding, result) ==
    \A i \in 1..Len(result) :
        /\ Includes(allAmenityIds(inUnit, inBuilding), result[i].id)
        /\ result[i].category = "in-unit" <=> Includes(Elements(parseJson(inUnit)), result[i].id)
        /\ result[i].name = AmenityTable[result[i].id]
        /\ result[i].priority = PriorityInfo(ToLowerCase(result[i].name))

\* both invocations are under way or over
BothCalled == call # "none" /\ other # NoOther

\* C24 (Concurrent use): when parseAmenities is invoked for two different
\* listings and the calls overlap, whichever query is answered first, each
\* call returns the result it returns alone for its own id lists and its own
\* reply, and every entry of a result has the id, the priority and the
\* provenance tag of the call's own inputs.
C24_ConcurrentUse ==
    BothCalled =>
        /\ (call = "parseAmenities" /\ ~thrown) =>
              /\ amenities = Alone(inUnitAmenities, inBuildingAmenities, reply)
              /\ OwnEntries(inUnitAmenities, inBuildingAmenities, amenities)
        /\ other.call = "parseAmenities" =>
              /\ other.amenities
                    = Alone(other.inUnitAmenities, other.inBuildingAmenities, other.reply)
              /\ OwnEntries(other.inUnitAmenities, other.inBuildingAmenities,
                            other.amenities)

\* the second call started while the first awaited its query and was answered
\* first; both have returned the same amenity, in-unit for one listing and
\* in-building for the other
C24_Witness ==
    /\ call = "parseAmenities"
    /\ other # NoOther
    /\ other.call = "parseAmenities"
    /\ other.startedAt = "query"
    /\ other.returnedAt = "query"
    /\ Len(amenities) > 0
    /\ Len(other.amenities) > 0
    /\ \E i \in 1..Len(amenities) : \E j \in 1..Len(other.amenities) :
          /\ amenities[i].id = other.amenities[j].id
          /\ amenities[i].category # other.amenities[j].category

====
